---- MODULE Spec2Model ----
(***************************************************************************)
(* Orchestration pipeline of the beauty-sales assistant:                   *)
(*   src/app/agents/main_agent.py      MainAgent (planner, plan parser,    *)
(*                                      streaming executor, synthesizer)   *)
(*   src/app/api/endpoints/chat.py     stream_chat.generate_response       *)
(*                                                                         *)
(* Texts are sequences of tokens.  A keyword of the parser's table is an   *)
(* "atom"; a word is the set of atoms it contains as substrings:           *)
(*   "zhishi_zhuanjia" = 知识专家     "hangye_zhishi" = 行业知识             *)
(*   "SQL" = SQL (upper case)        "sql" = sql (lower case)              *)
(*   "shujuku" = 数据库               "shuju_fenxi" = 数据分析               *)
(*   "keshihua" = 可视化              "tubiao" = 图表                        *)
(***************************************************************************)
EXTENDS Naturals, Integers, Sequences, FiniteSets, TLC

VARIABLES
    plan_text,      \* argument execution_plan of a stand-alone _parse_execution_plan call
    parsed,         \* its return value
    parse_pc,       \* "ready" before the call, "parsed" after it
    \* --- the process: chat.py's module-level main_agent and the chat tables
    session_state,  \* main_agent.session_state
    agents,         \* data_agent.current_data, visualization_agent.current_data/.data_source
    db_messages,    \* the ChatMessage rows of the session, oldest first
    \* --- one run of stream_chat.generate_response
    max_processing_time,   \* MAX_PROCESSING_TIME as configured
    hpc,            \* "idle", "loop" (in the for loop), "after_loop", "done"
    elapsed,        \* time.time() - start_time at the last reading
    chat_message,   \* chat_request.message
    h_final_response,      \* generate_response's final_response (<<>> is None)
    visualization_id,
    out,            \* the JSON lines yielded to the client, oldest first
    \* --- the generator main_agent.process_query(message)
    gpc,            \* where the generator is suspended
    g_execution_plan, \* the plan text accumulated from the Router
    router_pending, \* what the Router's run() has still to yield
    g_expert_sequence,     \* the plan: the stages to run
    step,           \* i + 1 of the executor's loop
    ex,             \* the executor's locals
    trace,          \* collaborator calls and emitted events, in the order they happen
    \* --- a stand-alone call of _get_final_result_from_streaming
    final_result,   \* its return value
    synth_pc,       \* "ready" before the call, "returned" after it
    \* --- a second streaming request of the same session, on the same main_agent
    other_pc        \* "absent", "loop", "running", "loaded", "final_sent"

parse_vars == <<plan_text, parsed, parse_pc>>
process_vars == <<session_state, agents, db_messages>>
handler_vars == <<max_processing_time, hpc, elapsed, chat_message, h_final_response,
                  visualization_id, out>>
generator_vars == <<gpc, g_execution_plan, router_pending, g_expert_sequence, step, ex, trace>>
pipeline_vars == <<process_vars, handler_vars, generator_vars>>
synth_vars == <<final_result, synth_pc>>
vars == <<parse_vars, synth_vars, other_pc, pipeline_vars>>

-----------------------------------------------------------------------------
(* Bounds *)

MaxTextLen == 4     \* tokens in a plan text handed to the stand-alone parser
MaxPlanTags == 2    \* bracketed tags on a plan line the Router writes
MaxPlanChunks == 2  \* pieces the Router's answer arrives in

-----------------------------------------------------------------------------
(* Words and tokens *)

W_Knowledge == {"zhishi_zhuanjia", "hangye_zhishi"}    \* 美妆行业知识专家
W_SQL       == {"SQL"}                                  \* SQL专家
W_sql       == {"sql"}                                  \* sql专家 (lower case)
W_Db        == {"shujuku"}                              \* 数据库专家
W_Data      == {"shuju_fenxi"}                          \* 数据分析专家
W_Viz       == {"keshihua"}                             \* 数据可视化专家
W_Chart     == {"tubiao"}                               \* 图表专家
W_Main      == {}                                       \* 主助手 (no keyword)
W_SqlData   == {"SQL", "shuju_fenxi"}                   \* SQL数据分析专家

TagWords  == {W_Knowledge, W_SQL, W_sql, W_Db, W_Data, W_Viz, W_Chart, W_Main, W_SqlData}
BareWords == {W_Knowledge, W_sql, W_Data, W_Viz, W_Main}

Label   == [t |-> "label", w |-> {}]     \* the literal 执行计划:
NL      == [t |-> "nl", w |-> {}]        \* a line break
Tag(w)  == [t |-> "tag", w |-> w]        \* [w]
Bare(w) == [t |-> "word", w |-> w]       \* w outside brackets

Tokens == {Label, NL} \cup {Tag(w) : w \in TagWords} \cup {Bare(w) : w \in BareWords}

Min(S) == CHOOSE x \in S : \A y \in S : x <= y

\* str.lower(): only the Latin keyword changes
Lower(w) == (w \ {"SQL"}) \cup (IF "SQL" \in w THEN {"sql"} ELSE {})

-----------------------------------------------------------------------------
(* MainAgent._parse_execution_plan *)

\* re.search(r"执行计划:\s*(.+?)$", execution_plan, re.MULTILINE): \s* also skips
\* line breaks, (.+?)$ is the rest of the line of the first character after them
re_search_plan(text) ==
    LET labels == {i \in DOMAIN text : text[i].t = "label"} IN
    IF labels = {} THEN [found |-> FALSE, group1 |-> <<>>]
    ELSE LET p    == Min(labels)
             body == {j \in DOMAIN text : j > p /\ text[j].t # "nl"}
         IN  IF body = {} THEN [found |-> FALSE, group1 |-> <<>>]
             ELSE LET b   == Min(body)
                      nls == {j \in DOMAIN text : j > b /\ text[j].t = "nl"}
                      e   == IF nls = {} THEN Len(text) ELSE Min(nls) - 1
                  IN  [found |-> TRUE, group1 |-> SubSeq(text, b, e)]

\* re.findall(r"\[(.*?)\]", plan_line)
re_findall_tags(plan_line) ==
    LET tags == SelectSeq(plan_line, LAMBDA tok : tok.t = "tag")
    IN  [k \in 1..Len(tags) |-> tags[k].w]

\* the if/elif chain over one bracketed name (main_agent.py 273-280)
MapExpert(expert) ==
    IF "zhishi_zhuanjia" \in expert \/ "hangye_zhishi" \in expert
        THEN <<[type |-> "knowledge", name |-> expert]>>
    ELSE IF "SQL" \in expert \/ "shujuku" \in expert
        THEN <<[type |-> "sql", name |-> expert]>>
    ELSE IF "shuju_fenxi" \in expert
        THEN <<[type |-> "data", name |-> expert]>>
    ELSE IF "keshihua" \in expert \/ "tubiao" \in expert
        THEN <<[type |-> "visualization", name |-> expert]>>
    ELSE <<>>

\* MapExperts with each stage inserted at the front of the list
RECURSIVE MapExperts_Prepending(_)
MapExperts_Prepending(experts_str) ==
    IF experts_str = <<>> THEN <<>>
    ELSE MapExperts_Prepending(Tail(experts_str)) \o MapExpert(Head(experts_str))

RECURSIVE MapExperts(_)
MapExperts(experts_str) ==
    IF experts_str = <<>> THEN <<>>
    ELSE MapExpert(Head(experts_str)) \o MapExperts(Tail(experts_str))

\* the keyword scan of the whole lower-cased text (main_agent.py 283-291)
ScanText(text) ==
    LET lower_text == UNION {Lower(text[i].w) : i \in DOMAIN text} IN
    (IF "zhishi_zhuanjia" \in lower_text \/ "hangye_zhishi" \in lower_text
        THEN <<[type |-> "knowledge", name |-> W_Knowledge]>> ELSE <<>>)
    \o (IF "sql" \in lower_text \/ "shujuku" \in lower_text
        THEN <<[type |-> "sql", name |-> W_SQL]>> ELSE <<>>)
    \o (IF "shuju_fenxi" \in lower_text
        THEN <<[type |-> "data", name |-> W_Data]>> ELSE <<>>)
    \o (IF "keshihua" \in lower_text \/ "tubiao" \in lower_text
        THEN <<[type |-> "visualization", name |-> W_Viz]>> ELSE <<>>)

\* _parse_execution_plan without the default stage for an empty sequence
_parse_execution_plan_NoDefault(execution_plan) ==
    LET plan_match == re_search_plan(execution_plan)
    IN  IF plan_match.found
            THEN MapExperts(re_findall_tags(plan_match.group1))
            ELSE ScanText(execution_plan)

_parse_execution_plan(execution_plan) ==
    LET plan_match == re_search_plan(execution_plan)
        expert_sequence ==
            IF plan_match.found
                THEN MapExperts(re_findall_tags(plan_match.group1))
                ELSE ScanText(execution_plan)
    IN  IF expert_sequence = <<>>
            THEN <<[type |-> "router", name |-> W_Main]>>
            ELSE expert_sequence

-----------------------------------------------------------------------------
(* Values of the pipeline *)

\* A text is a sequence of pieces; "" is <<>>.  Pieces: an opaque prose payload,
\* a stage label "\n\n[name]: ", a report line, a plan text, a ``` fence line
\* and a line of code.
Txt(x)        == <<[k |-> "txt", v |-> x]>>
NameLabel(n)  == <<[k |-> "label", name |-> n]>>
Line(x)       == <<[k |-> "line", v |-> x]>>
PlanAsText(p) == IF p = <<>> THEN <<>> ELSE <<[k |-> "plan", plan |-> p]>>
Fence         == <<[k |-> "fence", v |-> ""]>>
Code          == <<[k |-> "code", v |-> ""]>>

None  == "None"                     \* Python's None where a string is expected
NoDf  == [src |-> "None", of |-> ""]   \* current_data is None
FileDf(path) == [src |-> "file", of |-> path]
SqlDf(rows)  == [src |-> "sql", of |-> rows.id]

Put(d, key, v) == (key :> v) @@ d                     \* d[key] = v
Has(d, key)    == key \in DOMAIN d                    \* key in d
Get(d, key, default) == IF key \in DOMAIN d THEN d[key] ELSE default

\* response["content"] as the agent library hands it back when it is not a str
\* but a list of content items
ContentItems == <<[k |-> "items", v |-> "content_items"]>>
IsStr(value) == \A n \in DOMAIN value : value[n].k # "items"    \* isinstance(value, str)

\* an answer of more than ResponseCeiling characters
Long == <<[k |-> "long", v |-> "long_answer"]>>

\* the run in which the collaborators' answers are explored by their size
\* (SpecSizes): a short or a long text, a chart image below or above ImageCeiling
Sized == synth_pc = "sizes"

\* what the collaborators can answer.  The content list is an answer of the
\* Knowledge collaborator in the stand-alone call of the synthesizer only: the
\* streamed request is explored with str content
KnowledgeAnswers ==
    IF Sized THEN {Txt("knowledge"), Long}
    ELSE IF synth_pc = "off" THEN {<<>>, Txt("knowledge")}
    ELSE {<<>>, Txt("knowledge"), ContentItems}
SqlRows == {[id |-> "empty", n |-> 0, json |-> TRUE],
            [id |-> "rows", n |-> 1, json |-> TRUE],
            [id |-> "rows_dates", n |-> 1, json |-> FALSE]}   \* DATE/DECIMAL cells
SqlAnswers ==
    IF Sized
    THEN {[success |-> TRUE, data |-> [id |-> "rows", n |-> 1, json |-> TRUE], response |-> r] :
            r \in {Txt("sql_explanation"), Long}}
    ELSE
    {[success |-> FALSE, error |-> Txt("sql_error")]}
    \cup {[success |-> TRUE, data |-> d, response |-> Txt("sql_explanation")] : d \in SqlRows}
DataAnswers ==
    IF Sized
    THEN {[success |-> TRUE, response |-> r, visualization |-> None, code_output |-> ""] :
            r \in {Txt("analysis"), Long}}
    ELSE
    {[success |-> FALSE, error |-> Txt("data_error")]}
    \cup {[success |-> TRUE, response |-> r, visualization |-> v, code_output |-> ""] :
            r \in {Txt("analysis"), Fence \o Code \o Fence}, v \in {None, "data_chart"}}
VisualizationAnswers ==
    IF Sized
    THEN {[success |-> TRUE, visualization |-> v, description |-> Txt("chart_description")] :
            v \in {"chart", "huge_chart"}}
    ELSE
    {[success |-> FALSE, error |-> Txt("viz_error"), visualization |-> None],
     [success |-> TRUE, visualization |-> "chart", description |-> Txt("chart_description")],
     [success |-> TRUE, visualization |-> None, description |-> Txt("chart_description")]}

PyNone      == [py |-> "None"]                   \* result = None
PyStr(s)    == [py |-> "str", str |-> s]
PyDict(d)   == [py |-> "dict", dict |-> d]
PyObj(x)    == [py |-> "obj", obj |-> x]         \* any other object
NoAnswer    == [success |-> FALSE, error |-> <<>>]   \* no collaborator is asked

UserQuery(q)      == [kind |-> "user", query |-> q]
ChartQuery(found) == [kind |-> "chart_of_findings", findings |-> found]

\* the canned findings _clean_response_content returns for a text that is mostly code
CannedFindings == Line("canned_findings")

MinCleanedLen == 100
ResponseCeiling == 50000
ImageCeiling == 500000

\* len() of a piece, in characters, by what the piece stands for
CharLen(piece) ==
    CASE piece.k = "txt"   -> 200
      [] piece.k = "line"  -> 40
      [] piece.k = "plan"  -> 60
      [] piece.k = "label" -> 12
      [] piece.k = "code"  -> 50
      [] piece.k = "fence" -> 3
      [] piece.k = "query" -> piece.query.len
      [] piece.k = "cut"   -> ResponseCeiling
      [] piece.k = "long"  -> ResponseCeiling + 1

RECURSIVE TextLen(_)
TextLen(text) == IF text = <<>> THEN 0 ELSE CharLen(Head(text)) + TextLen(Tail(text))

\* the lines outside ``` blocks (main_agent.py 944-955)
RECURSIVE DropCodeBlocks(_, _)
DropCodeBlocks(text, in_code_block) ==
    IF text = <<>> THEN <<>>
    ELSE IF Head(text).k = "fence" THEN DropCodeBlocks(Tail(text), ~in_code_block)
    ELSE IF in_code_block THEN DropCodeBlocks(Tail(text), in_code_block)
    ELSE <<Head(text)>> \o DropCodeBlocks(Tail(text), in_code_block)

_clean_response_content(response_text) ==
    IF response_text = <<>> THEN response_text
    ELSE IF \E n \in DOMAIN response_text : response_text[n].k = "fence"
        THEN LET cleaned_text == DropCodeBlocks(response_text, FALSE)
             IN  IF TextLen(cleaned_text) < MinCleanedLen THEN CannedFindings
                 ELSE cleaned_text
    ELSE response_text

-----------------------------------------------------------------------------
(* One stage of the loop of _execute_expert_sequence_streaming.  m holds the
   locals of the pass (current_query, intermediate_results, final_response,
   visualization, code_output, source_agent, shared_context, result), the two
   collaborators' current_data (data, viz), the collaborator calls made by the
   stage (calls) and the exception it raised (raised). ss is session_state,
   ans the answer of the collaborator the stage asks. *)

CallEntry(m, agent, i, q, df) ==
    [e |-> "call", agent |-> agent, pass |-> m.pass, step |-> i, query |-> q, data |-> df]

\* MainAgent._sync_data_between_agents
_sync_data_between_agents(m, ss) ==
    [m EXCEPT !.viz = IF m.data # NoDf THEN m.data ELSE m.viz,
              !.viz_source = IF ss.current_data_path # None
                                THEN ss.current_data_path ELSE m.viz_source]

KnowledgeStage(m, i, ss, ans) ==
    LET result == ans IN
    [m EXCEPT !.calls = Append(m.calls, CallEntry(m, "knowledge", i, m.current_query, NoDf)),
              !.result = IF IsStr(result) THEN PyStr(result) ELSE PyObj(result),
              !.intermediate_results = Put(m.intermediate_results, "knowledge", result),
              !.shared_context = [m.shared_context EXCEPT
                                    !.knowledge_insights = result,
                                    !.previous_step_output = result],
              !.source_agent = "knowledge"]

SqlStage(m, i, ss, ans) ==
    IF ss.current_database # None
    THEN LET result == ans
             called == [m EXCEPT
                 !.calls = Append(m.calls, CallEntry(m, "sql", i, m.current_query, NoDf)),
                 !.result = PyDict(result)]
         IN  IF result.success
             THEN [called EXCEPT
                     !.intermediate_results =
                         Put(Put(m.intermediate_results, "sql", result.data),
                             "sql_response", result.response),
                     !.shared_context = [m.shared_context EXCEPT
                                           !.sql_results = <<result.data>>,
                                           !.previous_step_output = result.response],
                     !.source_agent = "sql"]
             ELSE [called EXCEPT
                     !.intermediate_results =
                         Put(m.intermediate_results, "sql_error", result.error),
                     !.shared_context = [m.shared_context EXCEPT
                         !.previous_step_output = Line("sql_failed:") \o result.error]]
    ELSE [m EXCEPT
            !.intermediate_results =
                Put(m.intermediate_results, "sql_error", Line("no_database")),
            !.shared_context = [m.shared_context EXCEPT
                !.previous_step_output = Line("no_database_sql_skipped")]]

\* DataLoaded with the file dataset dropped when there are no SQL rows to load
DataLoaded_SqlRowsOnly(m, ss) ==
    IF Has(m.intermediate_results, "sql")
        THEN _sync_data_between_agents(
                 [m EXCEPT !.data = SqlDf(m.intermediate_results["sql"])], ss)
        ELSE [m EXCEPT !.data = NoDf]

\* the dataset the Data collaborator holds when run_analysis is called
DataLoaded(m, ss) ==
    IF Has(m.intermediate_results, "sql")
        THEN _sync_data_between_agents(
                 [m EXCEPT !.data = SqlDf(m.intermediate_results["sql"])], ss)
        ELSE m

\* DataStage with the findings emptied when the analysis fails
DataStage_FindingsCleared(m, expert_sequence, i, ss, ans) ==
    IF ss.current_data_path # None
       \/ Get(m.intermediate_results, "sql", [id |-> "", n |-> 0, json |-> TRUE]).n > 0
    THEN LET loaded == DataLoaded(m, ss)
             result == ans
             called == [loaded EXCEPT
                 !.calls = Append(m.calls,
                     CallEntry(m, "data", i, m.current_query, loaded.data))]
         IN  IF Get(result, "success", TRUE)
             THEN LET cleaned_response ==
                          _clean_response_content(Get(result, "response", <<>>))
                      result2 == Put(result, "response", cleaned_response)
                      chart == Get(result2, "visualization", None)
                      code  == Get(result2, "code_output", "")
                  IN  [called EXCEPT
                         !.result = PyDict(result2),
                         !.intermediate_results =
                             Put(Put(m.intermediate_results, "data_analysis", cleaned_response),
                                 "data_visualization", chart),
                         !.shared_context = [m.shared_context EXCEPT
                                               !.analysis_findings = cleaned_response,
                                               !.previous_step_output = cleaned_response],
                         !.source_agent = "data",
                         !.visualization = IF chart # None THEN chart ELSE m.visualization,
                         !.code_output = IF code # "" THEN code ELSE m.code_output,
                         !.current_query =
                             IF i < Len(expert_sequence)
                                /\ expert_sequence[i + 1].type = "visualization"
                                 THEN ChartQuery(cleaned_response)
                                 ELSE m.current_query]
             ELSE [called EXCEPT
                     !.result = PyDict(result),
                     !.intermediate_results =
                         Put(m.intermediate_results, "data_error", result.error),
                     !.shared_context = [m.shared_context EXCEPT
                         !.analysis_findings = <<>>,
                         !.previous_step_output = Line("analysis_failed:") \o result.error]]
    ELSE [m EXCEPT
            !.intermediate_results =
                Put(m.intermediate_results, "data_error", Line("no_data_loaded")),
            !.shared_context = [m.shared_context EXCEPT
                !.previous_step_output = Line("no_data_loaded_no_analysis")]]

DataStage(m, expert_sequence, i, ss, ans) ==
    IF ss.current_data_path # None
       \/ Get(m.intermediate_results, "sql", [id |-> "", n |-> 0, json |-> TRUE]).n > 0
    THEN LET loaded == DataLoaded(m, ss)
             result == ans
             called == [loaded EXCEPT
                 !.calls = Append(m.calls,
                     CallEntry(m, "data", i, m.current_query, loaded.data))]
         IN  IF Get(result, "success", TRUE)
             THEN LET cleaned_response ==
                          _clean_response_content(Get(result, "response", <<>>))
                      result2 == Put(result, "response", cleaned_response)
                      chart == Get(result2, "visualization", None)
                      code  == Get(result2, "code_output", "")
                  IN  [called EXCEPT
                         !.result = PyDict(result2),
                         !.intermediate_results =
                             Put(Put(m.intermediate_results, "data_analysis", cleaned_response),
                                 "data_visualization", chart),
                         !.shared_context = [m.shared_context EXCEPT
                                               !.analysis_findings = cleaned_response,
                                               !.previous_step_output = cleaned_response],
                         !.source_agent = "data",
                         !.visualization = IF chart # None THEN chart ELSE m.visualization,
                         !.code_output = IF code # "" THEN code ELSE m.code_output,
                         !.current_query =
                             IF i < Len(expert_sequence)
                                /\ expert_sequence[i + 1].type = "visualization"
                                 THEN ChartQuery(cleaned_response)
                                 ELSE m.current_query]
             ELSE [called EXCEPT
                     !.result = PyDict(result),
                     !.intermediate_results =
                         Put(m.intermediate_results, "data_error", result.error),
                     !.shared_context = [m.shared_context EXCEPT
                         !.previous_step_output = Line("analysis_failed:") \o result.error]]
    ELSE [m EXCEPT
            !.intermediate_results =
                Put(m.intermediate_results, "data_error", Line("no_data_loaded")),
            !.shared_context = [m.shared_context EXCEPT
                !.previous_step_output = Line("no_data_loaded_no_analysis")]]

\* VisualizationAgent.create_visualization around the chart generator's answer
create_visualization(viz, generated) ==
    IF viz = NoDf
    THEN [success |-> FALSE, error |-> Line("no_data_to_visualize"),
          visualization |-> None, description |-> Line("load_data_first"),
          intermediate_message |-> Line("cannot_visualize_no_data")]
    ELSE Put(generated, "intermediate_message",
             IF generated.success /\ generated.visualization # None
                 THEN Line("chart_done_shown_in_final")
             ELSE IF generated.success THEN Line("done_without_chart")
             ELSE Line("chart_failed:") \o generated.error)

VisualizationStage(m, i, ss, ans) ==
    IF m.data # NoDf
    THEN LET result == create_visualization(m.viz, ans)
             called == [m EXCEPT
                 !.calls = Append(m.calls,
                     CallEntry(m, "visualization", i, UserQuery(m.shared_context.original_query),
                               m.viz))]
         IN  IF Get(result, "success", TRUE)
             THEN LET cleaned_description ==
                          _clean_response_content(Get(result, "description", <<>>))
                      result2 == Put(result, "description", cleaned_description)
                  IN  [called EXCEPT
                         !.result = PyDict(result2),
                         !.intermediate_results =
                             Put(m.intermediate_results, "visualization_description",
                                 cleaned_description),
                         !.visualization = IF result2.visualization # None
                                              THEN result2.visualization
                                              ELSE m.visualization,
                         !.source_agent = "visualization"]
             ELSE [called EXCEPT
                     !.result = PyDict(result),
                     !.intermediate_results =
                         Put(m.intermediate_results, "visualization_error",
                             Get(result, "error", Line("chart_failed")))]
    ELSE [m EXCEPT
            !.intermediate_results =
                Put(m.intermediate_results, "visualization_error",
                    Line("no_data_to_visualize"))]

\* the else branch: execution_plan is a parameter of _get_final_result_from_streaming
\* and an unbound name in _execute_expert_sequence_streaming
RouterStage(m, execution_plan) ==
    IF execution_plan.bound
    THEN [m EXCEPT
            !.intermediate_results =
                Put(m.intermediate_results, "router_response",
                    PlanAsText(execution_plan.text)),
            !.source_agent = "router"]
    ELSE [m EXCEPT !.raised = "NameError"]

\* final_response += "\n\n[name]: ..." (main_agent.py 619-623)
AppendResult(m, expert_name) ==
    IF m.raised # None THEN m
    ELSE IF m.result.py = "str" /\ m.result.str # <<>>
        THEN [m EXCEPT !.final_response = @ \o NameLabel(expert_name) \o m.result.str]
    ELSE IF m.result.py = "dict" /\ Has(m.result.dict, "response")
        THEN [m EXCEPT !.final_response = @ \o NameLabel(expert_name) \o m.result.dict.response]
    ELSE m

StageBody(m, expert_sequence, i, execution_plan, ss, ans) ==
    LET expert == expert_sequence[i]
        m0 == [m EXCEPT !.result = PyNone]
        done ==
            CASE expert.type = "knowledge"     -> KnowledgeStage(m0, i, ss, ans)
              [] expert.type = "sql"           -> SqlStage(m0, i, ss, ans)
              [] expert.type = "data"          -> DataStage(m0, expert_sequence, i, ss, ans)
              [] expert.type = "visualization" -> VisualizationStage(m0, i, ss, ans)
              [] OTHER                         -> RouterStage(m0, execution_plan)
    IN  AppendResult(done, expert.name)

\* the answers the collaborator asked by stage i can give in m
AnswersFor(m, expert, ss) ==
    CASE expert.type = "knowledge" -> KnowledgeAnswers
      [] expert.type = "sql" ->
            IF ss.current_database # None THEN SqlAnswers ELSE {NoAnswer}
      [] expert.type = "data" ->
            IF ss.current_data_path # None
               \/ Get(m.intermediate_results, "sql", [id |-> "", n |-> 0, json |-> TRUE]).n > 0
            THEN IF DataLoaded(m, ss).data = NoDf
                    THEN {[error |-> Line("no_data_loaded_load_a_file")]}
                    ELSE DataAnswers
            ELSE {NoAnswer}
      [] expert.type = "visualization" ->
            IF m.data # NoDf /\ m.viz # NoDf THEN VisualizationAnswers ELSE {NoAnswer}
      [] OTHER -> {NoAnswer}

\* the locals a pass starts from (main_agent.py 432-446 and 642-656)
InitialLocals(query) ==
    [current_query |-> UserQuery(query),
     intermediate_results |-> <<>>,
     final_response |-> <<>>,
     visualization |-> None,
     code_output |-> "",
     source_agent |-> "router",
     shared_context |-> [original_query |-> query,
                         knowledge_insights |-> <<>>,
                         sql_results |-> <<>>,
                         analysis_findings |-> <<>>,
                         previous_step_output |-> <<>>],
     result |-> PyNone]

LocalNames == DOMAIN InitialLocals("")
AgentNames == {"data", "viz", "viz_source"}

Machine(locals, ag, pass) == locals @@ ag @@ [calls |-> <<>>, raised |-> None, pass |-> pass]
LocalsOf(m) == [f \in LocalNames |-> m[f]]
AgentsOf(m) == [f \in AgentNames |-> m[f]]

-----------------------------------------------------------------------------
(* The synthesizer *)

ExpertTypes == {"knowledge", "sql", "data", "visualization"}

\* the try block of _generate_comprehensive_summary (848-904): summary_parts
SummaryParts(shared_context, intermediate_results) ==
    Line("report_title")
    \o (IF shared_context.knowledge_insights # <<>>
            THEN Line("h_industry_background") \o shared_context.knowledge_insights
            ELSE <<>>)
    \o (IF Get(intermediate_results, "sql_response", <<>>) # <<>>
            THEN Line("h_query_result") \o intermediate_results["sql_response"]
        ELSE IF Get(intermediate_results, "sql_error", <<>>) # <<>>
            THEN Line("h_query_status") \o Line("query_problem:")
                 \o intermediate_results["sql_error"]
        ELSE <<>>)
    \o (IF shared_context.analysis_findings # <<>>
            THEN Line("h_analysis") \o shared_context.analysis_findings
        ELSE IF Get(intermediate_results, "data_error", <<>>) # <<>>
            THEN Line("h_analysis_status") \o Line("analysis_problem:")
                 \o intermediate_results["data_error"]
        ELSE <<>>)
    \o (IF Get(intermediate_results, "visualization_description", <<>>) # <<>>
            THEN Line("h_chart_notes") \o intermediate_results["visualization_description"]
        ELSE IF Get(intermediate_results, "visualization_error", <<>>) # <<>>
            THEN Line("h_chart_status") \o Line("chart_problem:")
                 \o intermediate_results["visualization_error"]
        ELSE <<>>)
    \o Line("h_conclusion") \o Line("conclusion")

\* the string the except branch returns (908)
GenericSummary == Line("generic_summary")

\* _generate_comprehensive_summary without the try block: the parts are handed
\* on as they are
_generate_comprehensive_summary_Unguarded(shared_context, intermediate_results) ==
    SummaryParts(shared_context, intermediate_results)

\* "\n".join(summary_parts) raises TypeError on a part that is not a str, and
\* the except branch returns the fixed string
_generate_comprehensive_summary(shared_context, intermediate_results) ==
    IF IsStr(SummaryParts(shared_context, intermediate_results))
        THEN SummaryParts(shared_context, intermediate_results)
        ELSE GenericSummary

\* the machines the loop of _get_final_result_from_streaming can end in, from stage i
RECURSIVE FinalPassEnds(_, _, _, _, _)
FinalPassEnds(m, expert_sequence, i, execution_plan, ss) ==
    IF i > Len(expert_sequence) THEN {m}
    ELSE UNION {FinalPassEnds(StageBody(m, expert_sequence, i, execution_plan, ss, ans),
                              expert_sequence, i + 1, execution_plan, ss) :
                    ans \in AnswersFor(m, expert_sequence[i], ss)}

\* main_agent.py 824-843, on the machine the loop ended in
FinalResult(m, expert_sequence) ==
    LET summed ==
            IF Len(expert_sequence) = 4
               /\ \A n \in DOMAIN expert_sequence : expert_sequence[n].type \in ExpertTypes
                THEN _generate_comprehensive_summary(m.shared_context, m.intermediate_results)
                ELSE m.final_response
        integrated ==
            IF summed = <<>> /\ Has(m.intermediate_results, "router_response")
                THEN m.intermediate_results["router_response"]
                ELSE summed
    IN  [response |-> _clean_response_content(integrated),
         source |-> m.source_agent,
         visualization |-> m.visualization,
         code_output |-> m.code_output,
         intermediate_results |-> m.intermediate_results]

\* every (result, collaborators' state, calls made) the second pass can produce
_get_final_result_from_streaming(query, expert_sequence, execution_plan, ss, ag) ==
    {[final_result |-> FinalResult(m, expert_sequence), agents |-> AgentsOf(m), calls |-> m.calls] :
        m \in FinalPassEnds(Machine(InitialLocals(query), ag, "final"), expert_sequence, 1,
                            [bound |-> TRUE, text |-> execution_plan], ss)}

-----------------------------------------------------------------------------
(* The planner *)

LongQueryLen == 20

\* a query: whether it contains a comprehensive-analysis phrase, and its len()
Queries == {[keyword |-> FALSE, len |-> LongQueryLen],
            [keyword |-> TRUE, len |-> LongQueryLen],
            [keyword |-> FALSE, len |-> LongQueryLen + 1]}

\* _should_use_all_agents without the keyword loop
_should_use_all_agents_LengthOnly(query) == query.len > LongQueryLen

_should_use_all_agents(query) == query.keyword \/ query.len > LongQueryLen

\* the fixed sequence of _process_with_all_agents
AllAgentsSequence ==
    <<[type |-> "knowledge", name |-> W_Knowledge],
      [type |-> "sql", name |-> W_SQL],
      [type |-> "data", name |-> W_Data],
      [type |-> "visualization", name |-> W_Viz]>>

AllAgentsPlan == <<Label, Tag(W_Knowledge), Tag(W_SQL), Tag(W_Data), Tag(W_Viz), NL>>

\* what the Router can answer: nothing, prose naming an expert, a plan line of a
\* tag no keyword matches, and plan lines of one to MaxPlanTags expert tags
PlanWords == {W_Knowledge, W_SQL, W_Data, W_Viz}
RouterAnswers ==
    {<<>>, <<Bare(W_Data)>>, <<Label, Tag(W_Main)>>}
    \cup {<<Label>> \o [k \in DOMAIN ws |-> Tag(ws[k])] :
            ws \in UNION {[1..n -> PlanWords] : n \in 1..MaxPlanTags}}

\* the ways run() can deliver an answer: in one to MaxPlanChunks non-empty
\* pieces, nothing at all for the empty answer
RECURSIVE Deliveries(_, _)
Deliveries(text, n) ==
    IF text = <<>> THEN {<<>>}
    ELSE IF n = 0 THEN {}
    ELSE UNION {{<<SubSeq(text, 1, k)>> \o rest :
                    rest \in Deliveries(SubSeq(text, k + 1, Len(text)), n - 1)} :
                k \in 1..Len(text)}

-----------------------------------------------------------------------------
(* stream_chat.generate_response: what it does with one chunk *)

MAX_PROCESSING_TIME == 180
MaxMessages == 10
HistoryCap == 20
LastN(s, n) == IF Len(s) > n THEN SubSeq(s, Len(s) - n + 1, Len(s)) ELSE s

Message(role, content) == [role |-> role, content |-> content]
QueryText(query) == <<[k |-> "query", query |-> query]>>

ImageLen(image) == IF image = "huge_chart" THEN ImageCeiling + 1 ELSE 40000

WarningEvent == [type |-> "warning", content |-> [message |-> "too_long_interrupted"]]
ErrorLine(e, message) == [error |-> e, message |-> message]
Simplified(chunk) == [type |-> chunk.type, content |-> [message |-> "processing"]]

\* a reading of time.time() - start_time, in ticks of the clock: some time has
\* passed since start_time was taken; it is the time of the last reading or more
\* than the deadline
Readings == {IF elapsed = 0 THEN 1 ELSE elapsed, max_processing_time + 1}

\* whether json.dumps(chunk) succeeds: rows with DATE/DECIMAL cells make it raise
Serializable(chunk) ==
    CASE chunk.type = "intermediate" ->
            /\ chunk.content.result.py # "obj"
            /\ IsStr(chunk.content.shared_context.knowledge_insights)
            /\ IsStr(chunk.content.shared_context.previous_step_output)
            /\ \A n \in DOMAIN chunk.content.shared_context.sql_results :
                    chunk.content.shared_context.sql_results[n].json
            /\ \/ chunk.content.result.py # "dict"
               \/ ~Has(chunk.content.result.dict, "data")
               \/ chunk.content.result.dict.data.json
      [] chunk.type = "final" ->
            /\ IsStr(Get(chunk.content.intermediate_results, "knowledge", <<>>))
            /\ \/ ~Has(chunk.content.intermediate_results, "sql")
               \/ chunk.content.intermediate_results["sql"].json
      [] OTHER -> TRUE

\* chat.py 409-428
OptimizeChunk(chunk) ==
    LET cut ==
            IF chunk.type = "intermediate"
               /\ chunk.content.result.py = "dict"
               /\ Has(chunk.content.result.dict, "response")
               /\ TextLen(chunk.content.result.dict.response) > ResponseCeiling
            THEN [chunk EXCEPT !.content.result.dict =
                    Put(@, "response", <<[k |-> "cut", cut |-> @.response]>> \o Line("cut_marker"))]
            ELSE chunk
    IN  IF cut.type \in {"intermediate", "final"}
           /\ cut.content.visualization # None
           /\ ImageLen(cut.content.visualization) > ImageCeiling
        THEN [cut EXCEPT !.content =
                Put(Put(@, "visualization", None), "visualization_warning", "chart_too_big")]
        ELSE cut

\* chat.py 375-407: a final chunk is remembered and its chart stored
NoteFinal(chunk) ==
    IF chunk.type = "final" /\ chunk.content.visualization # None
        THEN [chunk EXCEPT !.content = Put(@, "visualization_id", "visualization_1")]
        ELSE chunk

EmitEntry(chunk) ==
    [e |-> "emit", type |-> chunk.type,
     step |-> IF chunk.type \in {"expert_start", "intermediate"} THEN chunk.content.step ELSE 0]

\* the body of the for loop (chat.py 362-443) for the chunk the generator yields
\* after making the collaborator calls `calls`
Deliver(chunk, calls) ==
    \E now \in Readings :
        /\ now >= elapsed
        /\ elapsed' = now
        /\ IF now > max_processing_time
           THEN /\ out' = Append(out, WarningEvent)
                /\ trace' = trace \o calls \o <<EmitEntry(WarningEvent)>>
                /\ hpc' = "after_loop"
                /\ UNCHANGED <<h_final_response, visualization_id>>
           ELSE LET sent == OptimizeChunk(NoteFinal(chunk)) IN
                /\ h_final_response' =
                       IF chunk.type = "final" THEN chunk.content.response
                                               ELSE h_final_response
                /\ visualization_id' =
                       IF chunk.type = "final" /\ chunk.content.visualization # None
                           THEN "visualization_1" ELSE visualization_id
                /\ out' = Append(out, IF Serializable(sent) THEN sent ELSE Simplified(sent))
                /\ trace' = trace \o calls \o <<EmitEntry(sent)>>
                /\ hpc' = "loop"

-----------------------------------------------------------------------------
(* stream_chat.generate_response before the loop *)

StartEvent == [type |-> "start", content |-> [session_id |-> "session_1"]]
ErrorEntry == [e |-> "emit", type |-> "error", step |-> 0]

\* chat.py 306-327: the user message is stored and the last max_messages rows
\* become the agent's conversation history
WithUserMessage == Append(db_messages, Message("user", QueryText(chat_message)))

\* chat.py 282-295: an unknown session without a usable data source is turned away
SetupRejected ==
    /\ hpc = "idle"
    /\ \E e \in {"first_conversation_needs_data_source_id", "data_source_not_found"} :
            out' = <<[error |-> e]>>
    /\ trace' = <<ErrorEntry>>
    /\ hpc' = "done"
    /\ UNCHANGED <<parse_vars, synth_vars, other_pc, process_vars, max_processing_time, elapsed, chat_message,
                   h_final_response, visualization_id, gpc, g_execution_plan,
                   router_pending, g_expert_sequence, step, ex>>

\* chat.py 333-338 with MainAgent.connect_database
SetupDatabase ==
    /\ hpc = "idle"
    /\ db_messages' = WithUserMessage
    /\ \E connection_success \in BOOLEAN :
        IF connection_success
        THEN /\ session_state' = [session_state EXCEPT
                    !.conversation_history = LastN(db_messages', MaxMessages),
                    !.current_database = "db_params"]
             /\ out' = <<StartEvent>>
             /\ trace' = <<EmitEntry(StartEvent)>>
             /\ hpc' = "loop"
        ELSE /\ session_state' = [session_state EXCEPT
                    !.conversation_history = LastN(db_messages', MaxMessages)]
             /\ out' = <<[error |-> "connect_database_failed"]>>
             /\ trace' = <<ErrorEntry>>
             /\ hpc' = "done"
    /\ UNCHANGED <<parse_vars, synth_vars, other_pc, agents, max_processing_time, elapsed, chat_message,
                   h_final_response, visualization_id, gpc, g_execution_plan,
                   router_pending, g_expert_sequence, step, ex>>

\* chat.py 339-346: a file that cannot be loaded leaves everything as it was
SetupFile ==
    /\ hpc = "idle"
    /\ db_messages' = WithUserMessage
    /\ \E data \in {NoDf, FileDf("file_path")} :
        LET history == LastN(db_messages', MaxMessages) IN
        IF data # NoDf
        THEN /\ session_state' = [session_state EXCEPT
                    !.conversation_history = history,
                    !.current_data_path = "file_path"]
             /\ agents' = _sync_data_between_agents([agents EXCEPT !.data = data],
                                                    session_state')
        ELSE /\ session_state' = [session_state EXCEPT !.conversation_history = history]
             /\ UNCHANGED agents
    /\ out' = <<StartEvent>>
    /\ trace' = <<EmitEntry(StartEvent)>>
    /\ hpc' = "loop"
    /\ UNCHANGED <<parse_vars, synth_vars, other_pc, max_processing_time, elapsed, chat_message,
                   h_final_response, visualization_id, gpc, g_execution_plan,
                   router_pending, g_expert_sequence, step, ex>>

-----------------------------------------------------------------------------
(* The generator main_agent.process_query(message), one resumption per action,
   with the loop body of generate_response for the chunk it yields *)

HistoryWithQuery ==
    [session_state EXCEPT !.conversation_history =
        Append(@, Message("user", QueryText(chat_message)))]

\* HistoryWithResponse without the limit on the length
HistoryWithResponse_Uncapped(history, response) ==
    Append(history, Message("assistant", response))

\* main_agent.py 181-186 and 241-246: the reply is recorded and the history
\* cut to its last 20 entries
HistoryWithResponse(history, response) ==
    LastN(Append(history, Message("assistant", response)), HistoryCap)

\* process_query into _process_with_all_agents, up to its first yield
ProcessWithAllAgents ==
    /\ hpc = "loop" /\ gpc = "unstarted"
    /\ _should_use_all_agents(chat_message)
    /\ session_state' = HistoryWithQuery
    /\ g_execution_plan' = AllAgentsPlan
    /\ g_expert_sequence' = AllAgentsSequence
    /\ gpc' = "plan_sent"
    /\ Deliver([type |-> "plan", content |-> PlanAsText(AllAgentsPlan)], <<>>)
    /\ UNCHANGED <<parse_vars, synth_vars, other_pc, agents, db_messages, max_processing_time, chat_message,
                   router_pending, step, ex>>

\* _process_with_all_agents 172-173
AllAgentsExperts ==
    /\ hpc = "loop" /\ gpc = "plan_sent"
    /\ gpc' = "exec"
    /\ Deliver([type |-> "experts",
                content |-> [n \in DOMAIN g_expert_sequence |-> g_expert_sequence[n].name]],
               <<>>)
    /\ UNCHANGED <<parse_vars, synth_vars, other_pc, process_vars, max_processing_time, chat_message,
                   g_execution_plan, router_pending, g_expert_sequence, step, ex>>

\* process_query into _process_with_router, up to its first yield; the answer
\* the Router's run() is going to stream is fixed here
ProcessWithRouter ==
    /\ hpc = "loop" /\ gpc = "unstarted"
    /\ ~_should_use_all_agents(chat_message)
    /\ session_state' = HistoryWithQuery
    /\ \E answer \in RouterAnswers : router_pending' \in Deliveries(answer, MaxPlanChunks)
    /\ gpc' = "routing"
    /\ Deliver([type |-> "thinking", content |-> Line("planning_steps")], <<>>)
    /\ UNCHANGED <<parse_vars, synth_vars, other_pc, agents, db_messages, max_processing_time, chat_message,
                   g_execution_plan, g_expert_sequence, step, ex>>

\* the pieces of an answer put together again
RECURSIVE Joined(_)
Joined(pieces) == IF pieces = <<>> THEN <<>> ELSE Head(pieces) \o Joined(Tail(pieces))

\* _process_with_router 226: self.control_agent.run(messages) is called on the
\* first resumption after the thinking event, before any piece is read
RouterCalls ==
    IF g_execution_plan = <<>>
        THEN <<[e |-> "call", agent |-> "router", pass |-> "plan", step |-> 0,
                query |-> UserQuery(chat_message), data |-> NoDf,
                returned |-> Joined(router_pending)]>>
        ELSE <<>>

\* _process_with_router 226-229: one piece of the Router's answer
RouterChunk ==
    /\ hpc = "loop" /\ gpc = "routing"
    /\ router_pending # <<>>
    /\ g_execution_plan' = g_execution_plan \o Head(router_pending)
    /\ router_pending' = Tail(router_pending)
    /\ Deliver([type |-> "plan", content |-> PlanAsText(g_execution_plan')], RouterCalls)
    /\ UNCHANGED <<parse_vars, synth_vars, other_pc, process_vars, max_processing_time, chat_message, gpc,
                   g_expert_sequence, step, ex>>

\* _process_with_router 232-233
RouterExperts ==
    /\ hpc = "loop" /\ gpc = "routing"
    /\ router_pending = <<>>
    /\ g_expert_sequence' = _parse_execution_plan(g_execution_plan)
    /\ gpc' = "exec"
    /\ Deliver([type |-> "experts",
                content |-> [n \in DOMAIN g_expert_sequence' |-> g_expert_sequence'[n].name]],
               RouterCalls)
    /\ UNCHANGED <<parse_vars, synth_vars, other_pc, process_vars, max_processing_time, chat_message,
                   g_execution_plan, router_pending, step, ex>>

\* _execute_expert_sequence_streaming 432-465: the locals on entry, then the
\* head of the loop up to the expert_start yield
ExpertStart ==
    /\ hpc = "loop" /\ gpc = "exec"
    /\ step < Len(g_expert_sequence)
    /\ step' = step + 1
    /\ ex' = IF step = 0 THEN InitialLocals(chat_message) ELSE ex
    /\ gpc' = "body"
    /\ Deliver([type |-> "expert_start",
                content |-> [expert_name |-> g_expert_sequence[step'].name,
                             expert_type |-> g_expert_sequence[step'].type,
                             step |-> step',
                             total_steps |-> Len(g_expert_sequence)]],
               <<>>)
    /\ UNCHANGED <<parse_vars, synth_vars, other_pc, process_vars, max_processing_time, chat_message,
                   g_execution_plan, router_pending, g_expert_sequence>>

\* IntermediateChunk with the loop index in place of the step number
IntermediateChunk_ZeroBased(m, expert_sequence, i) ==
    [type |-> "intermediate",
     content |-> [expert_name |-> expert_sequence[i].name,
                  result |-> m.result,
                  source |-> m.source_agent,
                  visualization |-> m.visualization,
                  code_output |-> m.code_output,
                  step |-> i - 1,
                  total_steps |-> Len(expert_sequence),
                  shared_context |-> m.shared_context]]

IntermediateChunk(m, expert_sequence, i) ==
    [type |-> "intermediate",
     content |-> [expert_name |-> expert_sequence[i].name,
                  result |-> m.result,
                  source |-> m.source_agent,
                  visualization |-> m.visualization,
                  code_output |-> m.code_output,
                  step |-> i,
                  total_steps |-> Len(expert_sequence),
                  shared_context |-> m.shared_context]]

\* chat.py 468-478: an exception out of the generator ends the response
ExceptionEscapes(exception, calls) ==
    /\ out' = Append(out, ErrorLine("chat_request_failed", exception))
    /\ trace' = trace \o calls \o <<ErrorEntry>>
    /\ hpc' = "done"
    /\ gpc' = "raised"
    /\ UNCHANGED <<elapsed, h_final_response, visualization_id>>

\* the generator is suspended at the expert_start yield of a stage of this type
AtStage(type) ==
    /\ hpc = "loop" /\ gpc = "body"
    /\ g_expert_sequence[step].type = type

\* the body of the loop, 467-638, up to the intermediate yield
RunStage ==
    /\ \E ans \in AnswersFor(Machine(ex, agents, "stream"), g_expert_sequence[step],
                             session_state) :
        LET m == StageBody(Machine(ex, agents, "stream"), g_expert_sequence, step,
                           [bound |-> FALSE, text |-> <<>>], session_state, ans)
        IN  /\ ex' = LocalsOf(m)
            /\ agents' = AgentsOf(m)
            /\ IF m.raised # None
               THEN ExceptionEscapes(m.raised, m.calls)
               ELSE /\ gpc' = "exec"
                    /\ Deliver(IntermediateChunk(m, g_expert_sequence, step), m.calls)
    /\ UNCHANGED <<parse_vars, synth_vars, other_pc, session_state, db_messages, max_processing_time,
                   chat_message, g_execution_plan, router_pending, g_expert_sequence, step>>

KnowledgeExpert ==
    /\ AtStage("knowledge")
    /\ RunStage

SqlExpert ==
    /\ AtStage("sql")
    /\ RunStage

DataExpert ==
    /\ AtStage("data")
    /\ RunStage

VisualizationExpert ==
    /\ AtStage("visualization")
    /\ RunStage

\* the else branch of the chain: any other type
RouterExpert ==
    /\ AtStage("router")
    /\ RunStage

\* _process_with_router 238-248 (_process_with_all_agents 178-188 reads the same):
\* the second pass over the plan, the history, the final yield
YieldFinal ==
    /\ hpc = "loop" /\ gpc = "exec"
    /\ step = Len(g_expert_sequence)
    /\ \E r \in _get_final_result_from_streaming(chat_message, g_expert_sequence,
                                                 g_execution_plan, session_state, agents) :
        /\ agents' = r.agents
        /\ session_state' = [session_state EXCEPT !.conversation_history =
                HistoryWithResponse(@, r.final_result.response)]
        /\ gpc' = "final_sent"
        /\ Deliver([type |-> "final", content |-> r.final_result], r.calls)
    /\ UNCHANGED <<parse_vars, synth_vars, other_pc, db_messages, max_processing_time, chat_message,
                   g_execution_plan, router_pending, g_expert_sequence, step, ex>>

\* the generator returns after its last yield: the for loop ends
Exhausted ==
    /\ hpc = "loop" /\ gpc = "final_sent"
    /\ gpc' = "returned"
    /\ hpc' = "after_loop"
    /\ UNCHANGED <<parse_vars, synth_vars, other_pc, process_vars, max_processing_time, elapsed, chat_message,
                   h_final_response, visualization_id, out, g_execution_plan,
                   router_pending, g_expert_sequence, step, ex, trace>>

DefaultResponse == Line("had_difficulty_please_simplify")

\* chat.py 445-466
Complete ==
    /\ hpc = "after_loop"
    /\ h_final_response' = IF h_final_response = <<>> THEN DefaultResponse
                                                      ELSE h_final_response
    /\ db_messages' = Append(db_messages, Message("assistant", h_final_response'))
    /\ out' = Append(out, [type |-> "complete",
                           content |-> [session_id |-> "session_1",
                                        visualization_id |-> visualization_id]])
    /\ trace' = Append(trace, [e |-> "emit", type |-> "complete", step |-> 0])
    /\ hpc' = "done"
    /\ UNCHANGED <<parse_vars, synth_vars, other_pc, session_state, agents, max_processing_time, elapsed,
                   chat_message, visualization_id, gpc, g_execution_plan, router_pending,
                   g_expert_sequence, step, ex>>

-----------------------------------------------------------------------------
(* The specifications *)

\* the deadline as written in chat.py, and the zero deadline of the timeout scenario
Deadlines == {MAX_PROCESSING_TIME, 0}

\* MainAgent.__init__ (main_agent.py 60-66), the collaborators as constructed,
\* and one request about to be handled
PipelineInit ==
    /\ session_state = [current_data_path |-> None, current_database |-> None,
                        conversation_history |-> <<>>]
    /\ agents = [data |-> NoDf, viz |-> NoDf, viz_source |-> None]
    /\ db_messages = <<>>
    /\ max_processing_time \in Deadlines
    /\ hpc = "idle"
    /\ elapsed = 0
    /\ chat_message \in Queries
    /\ h_final_response = <<>>
    /\ visualization_id = None
    /\ out = <<>>
    /\ gpc = "unstarted"
    /\ g_execution_plan = <<>>
    /\ router_pending = <<>>
    /\ g_expert_sequence = <<>>
    /\ step = 0
    /\ ex = InitialLocals(chat_message)
    /\ trace = <<>>

Init ==
    /\ plan_text = <<>> /\ parsed = <<>> /\ parse_pc = "off"
    /\ final_result = PyNone /\ synth_pc = "off"
    /\ other_pc = "absent"
    /\ PipelineInit

Next ==
    \/ SetupRejected
    \/ SetupDatabase
    \/ SetupFile
    \/ ProcessWithAllAgents
    \/ AllAgentsExperts
    \/ ProcessWithRouter
    \/ RouterChunk
    \/ RouterExperts
    \/ ExpertStart
    \/ KnowledgeExpert
    \/ SqlExpert
    \/ DataExpert
    \/ VisualizationExpert
    \/ RouterExpert
    \/ YieldFinal
    \/ Exhausted
    \/ Complete

Spec == Init /\ [][Next]_vars

-----------------------------------------------------------------------------
(* Stand-alone parser specification *)

ParseInit ==
    /\ \E k \in 0..MaxTextLen : plan_text \in [1..k -> Tokens]
    /\ parsed = <<>>
    /\ parse_pc = "ready"
    /\ final_result = PyNone /\ synth_pc = "off"
    /\ other_pc = "absent"
    /\ PipelineInit
    /\ max_processing_time = MAX_PROCESSING_TIME
    /\ chat_message = [keyword |-> FALSE, len |-> LongQueryLen]

Parse ==
    /\ parse_pc = "ready"
    /\ parsed' = _parse_execution_plan(plan_text)
    /\ parse_pc' = "parsed"
    /\ UNCHANGED <<plan_text, synth_vars, other_pc, pipeline_vars>>

ParseNext == Parse

SpecParse == ParseInit /\ [][ParseNext]_vars

-----------------------------------------------------------------------------
(* Stand-alone specification of _get_final_result_from_streaming: the call
   process_query makes after the streamed pass (main_agent.py 179 and 239), on a
   plan of up to MaxStages stages and a session as the handler's setup and the
   streamed pass can leave it *)

MaxStages == 4

\* the plans the call is made on: the default plan of the parser and every
\* sequence of one to MaxStages expert stages
SynthPlans ==
    {<<[type |-> "router", name |-> W_Main]>>}
    \cup UNION {[1..n -> {AllAgentsSequence[k] : k \in DOMAIN AllAgentsSequence}] :
                    n \in 1..MaxStages}

\* the plan text the planner holds for a plan
PlanTextsOf(expert_sequence) ==
    IF expert_sequence[1].type = "router"
        THEN {<<>>, <<Label, Tag(W_Main)>>}
        ELSE {<<Label>> \o [k \in DOMAIN expert_sequence |-> Tag(expert_sequence[k].name)]}

\* the collaborators' datasets by the session's data source: nothing loaded, a
\* file loaded by the setup, rows loaded by the data stage of the streamed pass
SynthSetups ==
    {[database |-> None, path |-> None, data |-> NoDf],
     [database |-> None, path |-> "file_path", data |-> FileDf("file_path")],
     [database |-> "db_params", path |-> None, data |-> NoDf],
     [database |-> "db_params", path |-> None, data |-> SqlDf([id |-> "rows"])]}

SynthInit ==
    /\ plan_text = <<>> /\ parsed = <<>> /\ parse_pc = "off"
    /\ final_result = PyNone /\ synth_pc = "ready"
    /\ other_pc = "absent"
    /\ chat_message = [keyword |-> FALSE, len |-> LongQueryLen]
    /\ \E setup \in SynthSetups :
        /\ session_state = [current_data_path |-> setup.path,
                            current_database |-> setup.database,
                            conversation_history |->
                                <<Message("user", QueryText(chat_message))>>]
        /\ agents = [data |-> setup.data, viz |-> setup.data, viz_source |-> setup.path]
    /\ db_messages = <<Message("user", QueryText(chat_message))>>
    /\ max_processing_time = MAX_PROCESSING_TIME
    /\ hpc = "loop"
    /\ elapsed = 0
    /\ h_final_response = <<>>
    /\ visualization_id = None
    /\ out = <<>>
    /\ gpc = "exec"
    /\ g_expert_sequence \in SynthPlans
    /\ g_execution_plan \in PlanTextsOf(g_expert_sequence)
    /\ router_pending = <<>>
    /\ step = Len(g_expert_sequence)
    /\ ex = InitialLocals(chat_message)
    /\ trace = <<>>

Synthesize ==
    /\ synth_pc = "ready"
    /\ \E r \in _get_final_result_from_streaming(chat_message, g_expert_sequence,
                                                 g_execution_plan, session_state, agents) :
        /\ final_result' = PyDict(r.final_result)
        /\ agents' = r.agents
        /\ trace' = r.calls
    /\ synth_pc' = "returned"
    /\ UNCHANGED <<parse_vars, other_pc, session_state, db_messages, handler_vars, gpc,
                   g_execution_plan, router_pending, g_expert_sequence, step, ex>>

SynthNext == Synthesize

SpecSynth == SynthInit /\ [][SynthNext]_vars

-----------------------------------------------------------------------------
(* Two streaming requests of one session.  chat.py 53 creates one MainAgent for
   the process, and generate_response is a coroutine that gives up control at
   each yield and at the await asyncio.sleep(0.01) after it (436), so the steps
   of a second request run between the steps of the first.  The first request
   is the one modelled above, asking for a comprehensive analysis; of the second
   request the steps that write main_agent are modelled, in the order its code
   takes them, for as long as the first request is suspended in its for loop. *)

\* the first request is suspended at a yield or at the sleep of its for loop
Suspended == hpc = "loop"

OtherQuery == [keyword |-> TRUE, len |-> LongQueryLen + 1]

\* chat.py 306-346 for the second request: its message is stored, the history
\* of main_agent is replaced by the session's last rows, and the session's data
\* source is connected or loaded again
OtherSetup ==
    /\ other_pc = "absent"
    /\ Suspended
    /\ db_messages' = Append(db_messages, Message("user", QueryText(OtherQuery)))
    /\ session_state' = [session_state EXCEPT
            !.conversation_history = LastN(db_messages', MaxMessages)]
    /\ agents' = IF session_state.current_data_path # None
                    THEN _sync_data_between_agents(
                             [agents EXCEPT !.data = FileDf(session_state.current_data_path)],
                             session_state')
                    ELSE agents
    /\ other_pc' = "loop"
    /\ UNCHANGED <<parse_vars, synth_vars, handler_vars, generator_vars>>

\* main_agent.py 113: process_query of the second request records its query
OtherProcessQuery ==
    /\ other_pc = "loop"
    /\ Suspended
    /\ session_state' = [session_state EXCEPT !.conversation_history =
            Append(@, Message("user", QueryText(OtherQuery)))]
    /\ other_pc' = "running"
    /\ UNCHANGED <<parse_vars, synth_vars, agents, db_messages, handler_vars, generator_vars>>

\* main_agent.py 515-520: the data stage of the second request loads the rows
\* of its own SQL query into the Data collaborator
OtherDataStage ==
    /\ other_pc = "running"
    /\ Suspended
    /\ session_state.current_database # None
    /\ \E rows \in {r \in SqlRows : r.n > 0} :
            agents' = _sync_data_between_agents([agents EXCEPT !.data = SqlDf(rows)],
                                                session_state)
    /\ other_pc' = "loaded"
    /\ UNCHANGED <<parse_vars, synth_vars, session_state, db_messages, handler_vars,
                   generator_vars>>

\* main_agent.py 179-188: the second request's answer is appended to the history
OtherFinal ==
    /\ other_pc \in {"running", "loaded"}
    /\ Suspended
    /\ session_state' = [session_state EXCEPT !.conversation_history =
            HistoryWithResponse(@, Line("other_response"))]
    /\ other_pc' = "final_sent"
    /\ UNCHANGED <<parse_vars, synth_vars, agents, db_messages, handler_vars, generator_vars>>

TwoInit ==
    /\ plan_text = <<>> /\ parsed = <<>> /\ parse_pc = "off"
    /\ final_result = PyNone /\ synth_pc = "off"
    /\ other_pc = "absent"
    /\ PipelineInit
    /\ max_processing_time = MAX_PROCESSING_TIME
    /\ chat_message = [keyword |-> TRUE, len |-> LongQueryLen]

TwoNext ==
    \/ SetupDatabase
    \/ SetupFile
    \/ ProcessWithAllAgents
    \/ AllAgentsExperts
    \/ ExpertStart
    \/ KnowledgeExpert
    \/ SqlExpert
    \/ DataExpert
    \/ VisualizationExpert
    \/ YieldFinal
    \/ Exhausted
    \/ Complete
    \/ OtherSetup
    \/ OtherProcessQuery
    \/ OtherDataStage
    \/ OtherFinal

SpecTwo == TwoInit /\ [][TwoNext]_vars

-----------------------------------------------------------------------------
(* Requests of other sessions before the request.  The one MainAgent of the
   process (chat.py 53) serves every session; a call that another session made
   and finished earlier is one action, by what it leaves in main_agent.  The
   request modelled above then follows, asking for a comprehensive analysis. *)

OtherHistory == <<Message("user", QueryText(OtherQuery)),
                  Message("assistant", Line("other_response"))>>

\* POST /stream of another session, run to its end: chat.py 327-346 and the
\* history and dataset its process_query leaves (main_agent.py 113, 182, 515-520)
EarlierStream ==
    /\ hpc = "idle"
    /\ \E source \in {"database", "database_rows", "file"} :
        /\ session_state' = [session_state EXCEPT
                !.conversation_history = OtherHistory,
                !.current_database = IF source = "file" THEN @ ELSE "other_db",
                !.current_data_path = IF source = "file" THEN "other_path" ELSE @]
        /\ agents' = _sync_data_between_agents(
                        [agents EXCEPT !.data =
                            CASE source = "file" -> FileDf("other_path")
                              [] source = "database_rows" -> SqlDf([id |-> "other_rows"])
                              [] OTHER -> @],
                        session_state')
    /\ UNCHANGED <<parse_vars, synth_vars, other_pc, db_messages, handler_vars,
                   generator_vars>>

\* POST /new for another session's data source: chat.py 212-226 with
\* MainAgent.reset_session
EarlierNewSession ==
    /\ hpc = "idle"
    /\ \E source \in {"database", "file"} :
        /\ session_state' = [current_data_path |-> IF source = "file" THEN "other_path" ELSE None,
                             current_database |-> IF source = "file" THEN None ELSE "other_db",
                             conversation_history |-> <<>>]
        /\ agents' = IF source = "file" THEN [agents EXCEPT !.data = FileDf("other_path")]
                                        ELSE agents
    /\ UNCHANGED <<parse_vars, synth_vars, other_pc, db_messages, handler_vars,
                   generator_vars>>

SessionsNext ==
    \/ EarlierStream
    \/ EarlierNewSession
    \/ SetupDatabase
    \/ SetupFile
    \/ ProcessWithAllAgents
    \/ AllAgentsExperts
    \/ ExpertStart
    \/ KnowledgeExpert
    \/ SqlExpert
    \/ DataExpert
    \/ VisualizationExpert
    \/ YieldFinal
    \/ Exhausted
    \/ Complete

SpecSessions == TwoInit /\ [][SessionsNext]_vars

-----------------------------------------------------------------------------
(* The request by the size of what the collaborators answer: the same request
   for a comprehensive analysis, each answer a short or a long text and each
   chart an image below or above the ceiling of chat.py 409-428 *)

SizesInit ==
    /\ plan_text = <<>> /\ parsed = <<>> /\ parse_pc = "off"
    /\ final_result = PyNone /\ synth_pc = "sizes"
    /\ other_pc = "absent"
    /\ PipelineInit
    /\ max_processing_time = MAX_PROCESSING_TIME
    /\ chat_message = [keyword |-> TRUE, len |-> LongQueryLen]

SizesNext ==
    \/ SetupDatabase
    \/ SetupFile
    \/ ProcessWithAllAgents
    \/ AllAgentsExperts
    \/ ExpertStart
    \/ KnowledgeExpert
    \/ SqlExpert
    \/ DataExpert
    \/ VisualizationExpert
    \/ YieldFinal
    \/ Exhausted
    \/ Complete

SpecSizes == SizesInit /\ [][SizesNext]_vars

-----------------------------------------------------------------------------
(* The loop of _execute_expert_sequence_streaming on its own: the generator is
   called on a session and a plan of expert stages, and chat.py's for loop
   sends what it yields *)

MaxStreamed == 3

\* every sequence of one to MaxStreamed expert stages
StreamPlans ==
    UNION {[1..n -> {AllAgentsSequence[k] : k \in DOMAIN AllAgentsSequence}] :
                n \in 1..MaxStreamed}

StagesInit ==
    /\ plan_text = <<>> /\ parsed = <<>> /\ parse_pc = "off"
    /\ final_result = PyNone /\ synth_pc = "off"
    /\ other_pc = "absent"
    /\ chat_message = [keyword |-> FALSE, len |-> LongQueryLen]
    /\ \E setup \in SynthSetups :
        /\ session_state = [current_data_path |-> setup.path,
                            current_database |-> setup.database,
                            conversation_history |->
                                <<Message("user", QueryText(chat_message))>>]
        /\ agents = [data |-> setup.data, viz |-> setup.data, viz_source |-> setup.path]
    /\ db_messages = <<Message("user", QueryText(chat_message))>>
    /\ max_processing_time = MAX_PROCESSING_TIME
    /\ hpc = "loop"
    /\ elapsed = 0
    /\ h_final_response = <<>>
    /\ visualization_id = None
    /\ out = <<>>
    /\ gpc = "exec"
    /\ g_expert_sequence \in StreamPlans
    /\ g_execution_plan \in PlanTextsOf(g_expert_sequence)
    /\ router_pending = <<>>
    /\ step = 0
    /\ ex = InitialLocals(chat_message)
    /\ trace = <<>>

StagesNext ==
    \/ ExpertStart
    \/ KnowledgeExpert
    \/ SqlExpert
    \/ DataExpert
    \/ VisualizationExpert

SpecStages == StagesInit /\ [][StagesNext]_vars

-----------------------------------------------------------------------------
(* Runs of process_query one after the other on one MainAgent, each iterated
   to its final chunk, by what they do to the conversation history: the append
   of 113 when the generator starts and the append and cut of 181-186 (241-246)
   before the final yield.  Nothing else in a run assigns the history.  The
   trace records what was said. *)

MaxRuns == 11

Said(message) == [e |-> "said", message |-> message]

\* the queries of the runs
RunQueries == {query \in Queries : query.len = LongQueryLen}

HistoryInit ==
    /\ plan_text = <<>> /\ parsed = <<>> /\ parse_pc = "off"
    /\ final_result = PyNone /\ synth_pc = "off"
    /\ other_pc = "absent"
    /\ PipelineInit
    /\ max_processing_time = MAX_PROCESSING_TIME
    /\ chat_message \in RunQueries

\* process_query(chat_message) is called and iterated: 113
RunStarts ==
    /\ gpc = "unstarted"
    /\ Len(trace) < 2 * MaxRuns
    /\ session_state' = HistoryWithQuery
    /\ trace' = Append(trace, Said(Message("user", QueryText(chat_message))))
    /\ gpc' = "exec"
    /\ UNCHANGED <<parse_vars, synth_vars, other_pc, agents, db_messages, handler_vars,
                   g_execution_plan, router_pending, g_expert_sequence, step, ex>>

\* the run reaches its final yield: 181-188; the caller has its next query
RunReachesFinal ==
    /\ gpc = "exec"
    /\ session_state' = [session_state EXCEPT !.conversation_history =
            HistoryWithResponse(@, Line("report"))]
    /\ trace' = Append(trace, Said(Message("assistant", Line("report"))))
    /\ gpc' = "unstarted"
    /\ chat_message' \in RunQueries
    /\ UNCHANGED <<parse_vars, synth_vars, other_pc, agents, db_messages,
                   max_processing_time, hpc, elapsed, h_final_response, visualization_id,
                   out, g_execution_plan, router_pending, g_expert_sequence, step, ex>>

HistoryNext ==
    \/ RunStarts
    \/ RunReachesFinal

SpecHistory == HistoryInit /\ [][HistoryNext]_vars

-----------------------------------------------------------------------------
(* Properties of the stream, checked under Spec *)

\* the kind of a line of the stream; a line without "type" is an error line
Kind(ev) == IF "type" \in DOMAIN ev THEN ev.type ELSE "error"
StreamKinds == [n \in DOMAIN out |-> Kind(out[n])]

\* the eight kinds of event of the wire contract
SpecifiedKinds == {"start", "thinking", "plan", "experts", "expert_start",
                   "intermediate", "warning", "final"}
Events == SelectSeq(out, LAMBDA ev : Kind(ev) \in SpecifiedKinds)
EventKinds == [n \in DOMAIN Events |-> Kind(Events[n])]

Sent(kind) == {n \in DOMAIN out : Kind(out[n]) = kind}

\* the request was taken up (a session and a data source were found) and the
\* response is complete
Finished == hpc = "done" /\ out # <<>> /\ Kind(out[1]) = "start"

\* C1: whatever the query, the plan and the outcomes of the stages, the stream
\* ends with a final event whose response is a non-empty string.  Stated for the
\* runs in which the deadline does not pass and no exception is raised: the last
\* event of the contract is final and carries a non-empty response
C1_FinalWithResponse ==
    (Finished /\ Sent("warning") = {} /\ gpc # "raised") =>
        /\ EventKinds[Len(Events)] = "final"
        /\ "response" \in DOMAIN Events[Len(Events)].content
        /\ Events[Len(Events)].content.response # <<>>

\* C2: no exception raised while a stage runs or while the result is
\* synthesized leaves the generator returned by process_query
C2_NoExceptionEscapes == gpc # "raised"

\* Start, Thinking/Plan events, one Experts, pairs of ExpertStart and
\* Intermediate, Final
Lifecycle(kinds) ==
    /\ Len(kinds) >= 3
    /\ kinds[1] = "start"
    /\ kinds[Len(kinds)] = "final"
    /\ \E e \in 2..(Len(kinds) - 1) :
        /\ kinds[e] = "experts"
        /\ \A n \in 2..(e - 1) : kinds[n] \in {"thinking", "plan"}
        /\ \A n \in (e + 1)..(Len(kinds) - 1) :
                kinds[n] = IF (n - e) % 2 = 1 THEN "expert_start" ELSE "intermediate"
        /\ (Len(kinds) - 1 - e) % 2 = 0

\* C3: in every run the events of the eight kinds come in the order Start,
\* Thinking/Plan events, exactly one Experts, (ExpertStart, Intermediate) pairs,
\* Final, with at most one Warning besides
C3_LifecycleOrder ==
    Finished =>
        /\ Cardinality(Sent("warning")) <= 1
        /\ Lifecycle(SelectSeq(EventKinds, LAMBDA kind : kind # "warning"))

\* a run is successful if it reaches its final event
Successful == hpc = "done" /\ Sent("final") # {}

RECURSIVE Pairs(_)
Pairs(n) == IF n = 0 THEN <<>> ELSE Pairs(n - 1) \o <<"expert_start", "intermediate">>

C5_StagesStrictlySequential ==
    \A b \in DOMAIN trace :
        trace[b].e = "call" =>
            /\ trace[b].step > 1 =>
                    \E a \in 1..(b - 1) : /\ trace[a].e = "emit"
                                          /\ trace[a].type = "intermediate"
                                          /\ trace[a].step = trace[b].step - 1
            /\ \A a \in 1..(b - 1) :
                    (trace[a].e = "emit" /\ trace[a].type = "expert_start")
                        => trace[a].step <= trace[b].step

\* C6: when the deadline is exceeded the stream carries a Warning, no stage
\* starts after it, and a Final event still follows it
C6_TimeoutStillFinal ==
    hpc = "done" =>
        \A w \in Sent("warning") :
            /\ \A n \in Sent("expert_start") : n < w
            /\ \E n \in Sent("final") : n > w

\* C7: with a deadline of 0 the events are Start, Warning, Final
C7_ZeroDeadlineStream ==
    (Finished /\ max_processing_time = 0) => EventKinds = <<"start", "warning", "final">>

ErrorKeys == {"sql_error", "data_error", "visualization_error"}

\* C8: a stage that fails softly does not abort the pipeline: in a run of a plan
\* of N expert stages that reaches Final every stage has its ExpertStart and its
\* Intermediate, and the error text of each failed stage is in the record the
\* Final result was synthesized from
C8_SoftFailureContinues ==
    (Successful /\ \A n \in DOMAIN g_expert_sequence :
                        g_expert_sequence[n].type \in ExpertTypes) =>
        /\ Cardinality(Sent("expert_start")) = Len(g_expert_sequence)
        /\ Cardinality(Sent("intermediate")) = Len(g_expert_sequence)
        /\ \A f \in Sent("final") :
             "intermediate_results" \in DOMAIN out[f].content =>
                \A key \in ErrorKeys \cap DOMAIN ex.intermediate_results :
                    /\ key \in DOMAIN out[f].content.intermediate_results
                    /\ out[f].content.intermediate_results[key] = ex.intermediate_results[key]

-----------------------------------------------------------------------------
(* Properties of the plan parser, checked under SpecParse *)

\* the keyword table of the parser's contract: the keywords of each kind
KeywordTable ==
    [knowledge |-> {"zhishi_zhuanjia", "hangye_zhishi"},
     sql |-> {"SQL", "shujuku"},
     data |-> {"shuju_fenxi"},
     visualization |-> {"keshihua", "tubiao"}]

KindsOf(tag) == {kind \in DOMAIN KeywordTable : tag \cap KeywordTable[kind] # {}}

\* the tags of the structured plan line of a text: the bracketed names that
\* follow the first plan label on its line (<<>> if there is no such line)
PlanLineTags(text) ==
    LET labels == {i \in DOMAIN text : text[i].t = "label"} IN
    IF labels = {} THEN <<>>
    ELSE LET p    == Min(labels)
             nls  == {j \in DOMAIN text : j > p /\ text[j].t = "nl"}
             e    == IF nls = {} THEN Len(text) ELSE Min(nls) - 1
             line == SubSeq(text, p + 1, e)
             tags == SelectSeq(line, LAMBDA tok : tok.t = "tag")
         IN  [k \in DOMAIN tags |-> tags[k].w]

RecognizedTags(text) == SelectSeq(PlanLineTags(text), LAMBDA tag : KindsOf(tag) # {})

C10_OneStagePerKind ==
    parse_pc = "parsed" =>
        \A i, j \in DOMAIN parsed : i # j => parsed[i].type # parsed[j].type


FallbackPlan == <<[type |-> "router", name |-> W_Main]>>

\* the keywords of a text, whatever their case and whether bracketed or not
TextKeywords(text) == UNION {Lower(text[i].w) : i \in DOMAIN text}

\* the keyword table as the scan of the whole text uses it
ScanTable ==
    [knowledge |-> {"zhishi_zhuanjia", "hangye_zhishi"},
     sql |-> {"sql", "shujuku"},
     data |-> {"shuju_fenxi"},
     visualization |-> {"keshihua", "tubiao"}]

FoundKinds(text) == {kind \in DOMAIN ScanTable : TextKeywords(text) \cap ScanTable[kind] # {}}

\* C11: parse never returns an empty list; the Fallback stage stands alone and
\* is returned exactly when no stage was recognized: always for a text without
\* any keyword and for a plan line whose tags are all unrecognized, never when
\* the plan line has a recognized tag or a text without plan label has a keyword
C11_PlanNeverEmpty ==
    parse_pc = "parsed" =>
        /\ Len(parsed) >= 1
        /\ \/ parsed = FallbackPlan
           \/ \A n \in DOMAIN parsed : parsed[n].type \in DOMAIN KeywordTable
        /\ FoundKinds(plan_text) = {} => parsed = FallbackPlan
        /\ (PlanLineTags(plan_text) # <<>> /\ RecognizedTags(plan_text) = <<>>)
                => parsed = FallbackPlan
        /\ parsed = FallbackPlan =>
                /\ RecognizedTags(plan_text) = <<>>
                /\ (\A i \in DOMAIN plan_text : plan_text[i].t # "label")
                        => FoundKinds(plan_text) = {}

\* the empty text, and a plan line of one tag unknown to the table beside a
\* keyword outside the line, both parsed to the Fallback plan
C11_Witness ==
    /\ parse_pc = "parsed"
    /\ parsed = FallbackPlan
    /\ \/ plan_text = <<>>
       \/ plan_text = <<Label, Tag(W_Main), NL, Bare(W_Data)>>

\* no plan label of the text is followed on its line by a bracketed tag
NoStructuredLine(text) ==
    \A p \in DOMAIN text :
        text[p].t = "label" =>
            \A j \in DOMAIN text :
                (j > p /\ text[j].t = "tag") =>
                    \E n \in (p + 1)..(j - 1) : text[n].t = "nl"

CanonicalOrder == <<"knowledge", "sql", "data", "visualization">>

\* C12: a plan text without structured plan line, holding keywords, is parsed
\* to one stage per keyword group found in it, in the order Knowledge, SqlQuery,
\* DataAnalysis, Visualization
C12_ScanInCanonicalOrder ==
    (parse_pc = "parsed" /\ NoStructuredLine(plan_text) /\ FoundKinds(plan_text) # {}) =>
        [n \in DOMAIN parsed |-> parsed[n].type]
            = SelectSeq(CanonicalOrder, LAMBDA kind : kind \in FoundKinds(plan_text))

-----------------------------------------------------------------------------
(* Properties of the planner, checked under Spec *)

\* the plan of the request has been made
Planned == gpc \in {"exec", "body", "final_sent", "returned", "raised"}

RouterCallsMade ==
    SelectSeq(trace, LAMBDA t : t.e = "call" /\ t.agent = "router")

\* C13: a query holding a comprehensive-analysis phrase (whatever its length) or
\* longer than 20 characters gets the fixed plan [knowledge, sql, data,
\* visualization] and the Router is not asked; any other query, and only such a
\* query, makes the Router's run() be called exactly once, and the text it
\* returned, the empty text too, is what the plan parser is given
C13_PlannerChoosesPlan ==
    Planned =>
        IF chat_message.keyword \/ chat_message.len > LongQueryLen
        THEN /\ g_expert_sequence = AllAgentsSequence
             /\ RouterCallsMade = <<>>
        ELSE LET made == RouterCallsMade IN
             /\ Len(made) = 1
             /\ g_execution_plan = made[1].returned
             /\ g_expert_sequence = _parse_execution_plan(made[1].returned)

\* the Router returned the empty text to a short query without phrase, and the
\* parser made the default plan of it
C13_Witness ==
    /\ Planned
    /\ ~chat_message.keyword /\ chat_message.len <= LongQueryLen
    /\ Len(RouterCallsMade) = 1
    /\ RouterCallsMade[1].returned = <<>>
    /\ g_expert_sequence = FallbackPlan

-----------------------------------------------------------------------------
(* Properties of the synthesizer, checked under Spec *)

\* the text holds the report line x
HasLine(text, x) == \E n \in DOMAIN text : text[n].k = "line" /\ text[n].v = x

\* the calls of a collaborator made in a pass ("stream" or "final")
CallsOf(agent, pass) ==
    {n \in DOMAIN trace : /\ trace[n].e = "call"
                          /\ trace[n].agent = agent
                          /\ trace[n].pass = pass}

\* the final events of the stream that carry a response
Finals == {n \in DOMAIN out : Kind(out[n]) = "final" /\ "response" \in DOMAIN out[n].content}

\* the canonical plan, no database connected, a file dataset loaded
FileOnlyCanonical ==
    /\ g_expert_sequence = AllAgentsSequence
    /\ session_state.current_database = None
    /\ session_state.current_data_path # None

-----------------------------------------------------------------------------
(* Properties of the final result, checked under SpecSynth *)

Returned == synth_pc = "returned"
Response == final_result.dict.response
PlanTypes == [n \in DOMAIN g_expert_sequence |-> g_expert_sequence[n].type]

\* C15: the report of the canonical plan always holds the four stage sections:
\* industry background, data query (result or status), analysis (findings or
\* status) and visualization (notes or status), whatever the stages returned
C15_FixedSectionStructure ==
    (Returned /\ g_expert_sequence = AllAgentsSequence) =>
        /\ HasLine(Response, "h_industry_background")
        /\ HasLine(Response, "h_query_result") \/ HasLine(Response, "h_query_status")
        /\ HasLine(Response, "h_analysis") \/ HasLine(Response, "h_analysis_status")
        /\ HasLine(Response, "h_chart_notes") \/ HasLine(Response, "h_chart_status")

\* C16: the final response is the structured report exactly when the plan is
\* the canonical sequence knowledge, sql, data, visualization
C16_ReportOnlyForCanonicalPlan ==
    Returned => (HasLine(Response, "report_title") <=> PlanTypes = CanonicalOrder)

\* the stage labels of a text, in the order they stand in it
LabelsIn(text) ==
    LET labels == SelectSeq(text, LAMBDA piece : piece.k = "label")
    IN  [n \in DOMAIN labels |-> labels[n].name]

\* C17: for a plan of one to three expert stages the final response holds one
\* labeled segment per stage of the plan, in execution order
C17_OneSegmentPerStage ==
    (Returned /\ Len(g_expert_sequence) < 4 /\ g_expert_sequence[1].type # "router") =>
        LabelsIn(Response) = [n \in DOMAIN g_expert_sequence |-> g_expert_sequence[n].name]

\* the Knowledge collaborator handed back a content list
KnowledgeNotStr ==
    /\ Has(final_result.dict.intermediate_results, "knowledge")
    /\ ~IsStr(final_result.dict.intermediate_results["knowledge"])

\* the plan for which _generate_comprehensive_summary is called (825)
SummaryCalled ==
    /\ Len(g_expert_sequence) = 4
    /\ \A n \in DOMAIN g_expert_sequence : g_expert_sequence[n].type \in ExpertTypes

\* C18: when joining the report raises, because a part of it is not a str, the
\* call still returns a result, its response is the fixed generic string and
\* nothing but the stages' own calls was made; no result ever shows a part that
\* is not a str
C18_SummaryFailureGivesTemplate ==
    Returned =>
        /\ final_result.py = "dict"
        /\ IsStr(Response)
        /\ (SummaryCalled /\ KnowledgeNotStr) =>
                /\ Response = GenericSummary
                /\ \A n \in DOMAIN trace :
                        trace[n].e = "call" /\ trace[n].agent \in ExpertTypes

C18_Witness ==
    /\ Returned
    /\ g_expert_sequence = AllAgentsSequence
    /\ KnowledgeNotStr
    /\ Response = GenericSummary

-----------------------------------------------------------------------------
(* Properties of the collaborator calls *)

\* C19: in one run of process_query no collaborator is asked twice; the SQL
\* collaborator in particular is queried at most once (checked under Spec)
C19_NoExpertRunsTwice ==
    \A agent \in ExpertTypes :
        Cardinality({n \in DOMAIN trace : trace[n].e = "call" /\ trace[n].agent = agent}) <= 1

\* the first request is between its setup and its final event
InFlight == hpc = "loop" /\ gpc \notin {"final_sent", "returned", "raised"}

\* C20: while a request is between its setup and its final event, no step of
\* another request of the session replaces the conversation history, the data
\* source or the collaborators' dataset of main_agent (checked under SpecTwo)
C20_SingleWriterPerSession ==
    [][(InFlight /\ other_pc' # other_pc) => UNCHANGED <<session_state, agents>>]_vars

-----------------------------------------------------------------------------
(* Properties of the sessions, checked under SpecSessions *)

\* the request was taken up: its start event is out
TakenUp == out # <<>> /\ Kind(out[1]) = "start"

CallEntries == {n \in DOMAIN trace : trace[n].e = "call"}

\* C21: whatever other sessions did before, the stages of a request work on
\* their own session's resources: the database and the file of main_agent are
\* the session's own or none, no collaborator is called on another session's
\* dataset, and without a database of its own the sql stage calls nobody
C21_SessionsIndependent ==
    TakenUp =>
        /\ session_state.current_database \in {None, "db_params"}
        /\ session_state.current_data_path \in {None, "file_path"}
        /\ \A n \in CallEntries : trace[n].data.of \notin {"other_path", "other_rows"}
        /\ session_state.current_database # "db_params" =>
                \A n \in CallEntries : trace[n].agent # "sql"

-----------------------------------------------------------------------------
(* Properties of the intermediate events, checked under Spec *)

Emits == {n \in DOMAIN trace : trace[n].e = "emit"}

\* the next event sent after the one recorded at place p of the trace, if any
NextEmit(p) == {q \in Emits : q > p /\ \A r \in Emits : r > p => q <= r}

\* the intermediate events, as sent, of the visualization stages
VisualizationEvents ==
    {n \in Sent("intermediate") :
        /\ "expert_name" \in DOMAIN out[n].content
        /\ MapExpert(out[n].content.expert_name) # <<>>
        /\ MapExpert(out[n].content.expert_name)[1].type = "visualization"}

\* the intermediate event of a visualization stage holds the status line and no
\* chart image, neither as its visualization nor inside its result
StatusLineOnly ==
    \A n \in VisualizationEvents :
        /\ out[n].content.visualization = None
        /\ out[n].content.result.py = "dict" =>
                /\ Has(out[n].content.result.dict, "intermediate_message")
                /\ Get(out[n].content.result.dict, "visualization", None) = None

\* C22: a stage that ran to its end (it raised nothing) is followed by one
\* intermediate event of its own step before anything else is sent, and the
\* intermediate event of a visualization stage carries the status line and
\* never the chart image
C22_IntermediateHasNoImage ==
    /\ StatusLineOnly
    /\ \A p \in Emits : trace[p].type = "expert_start" =>
            \A q \in NextEmit(p) :
                \/ trace[q].type = "error"
                \/ trace[q].type = "intermediate" /\ trace[q].step = trace[p].step

-----------------------------------------------------------------------------
(* Properties of the size of the events, checked under SpecSizes *)

\* the texts an event carries
TextPayloads(ev) ==
    IF Kind(ev) = "final" /\ "response" \in DOMAIN ev.content
        THEN {ev.content.response}
    ELSE IF Kind(ev) = "intermediate" /\ "result" \in DOMAIN ev.content
        THEN {ev.content.shared_context.knowledge_insights,
              ev.content.shared_context.analysis_findings,
              ev.content.shared_context.previous_step_output}
             \cup (IF ev.content.result.py = "str" THEN {ev.content.result.str}
                   ELSE IF ev.content.result.py = "dict"
                           /\ Has(ev.content.result.dict, "response")
                       THEN {ev.content.result.dict.response}
                   ELSE {})
    ELSE {}

\* the inline images an event carries
ImagePayloads(ev) ==
    IF Kind(ev) \in {"final", "intermediate"} /\ "visualization" \in DOMAIN ev.content
        THEN {ev.content.visualization}
             \cup (IF Kind(ev) = "intermediate" /\ ev.content.result.py = "dict"
                       THEN {Get(ev.content.result.dict, "visualization", None)}
                       ELSE {})
        ELSE {}

TruncatedLen == ResponseCeiling + TextLen(Line("cut_marker"))

\* C23: in every event sent, every text is at most ResponseCeiling characters
\* and the truncation marker long, and every image is at most ImageCeiling
\* characters long or was replaced by None with a warning beside it
C23_NothingSentWholeAboveCeiling ==
    \A n \in DOMAIN out :
        /\ \A text \in TextPayloads(out[n]) : TextLen(text) <= TruncatedLen
        /\ \A image \in ImagePayloads(out[n]) :
                image # None => ImageLen(image) <= ImageCeiling
        /\ (Kind(out[n]) \in {"final", "intermediate"}
             /\ Has(out[n].content, "visualization_warning")) =>
                out[n].content.visualization = None

-----------------------------------------------------------------------------
(* Properties of the visualization stage, checked under SpecSessions *)

\* the datasets of other sessions
ForeignDatasets == {FileDf("other_path"), SqlDf([id |-> "other_rows"])}

\* C24: the Visualization collaborator is called only on a loaded dataset of
\* the session, the file of its setup or the rows of this run's sql stage, and
\* that dataset is the one the data stage of the same pass was called on,
\* never one that an earlier request or another session left behind
C24_VisualizationOnOwnDataset ==
    \A n \in CallEntries : trace[n].agent = "visualization" =>
        /\ trace[n].data # NoDf
        /\ trace[n].data \notin ForeignDatasets
        /\ \A p \in CallEntries :
                (p < n /\ trace[p].agent = "data" /\ trace[p].pass = trace[n].pass)
                    => trace[n].data = trace[p].data

-----------------------------------------------------------------------------
(* Properties of the shared context *)

\* the intermediate events, as sent, of the expert stages
StageEvents ==
    {n \in Sent("intermediate") :
        /\ "expert_name" \in DOMAIN out[n].content
        /\ MapExpert(out[n].content.expert_name) # <<>>}

StageTypeOf(ev) == MapExpert(ev.content.expert_name)[1].type

\* the text of a stage that asked nobody
SoftFailText(type) ==
    CASE type = "sql"  -> Line("no_database_sql_skipped")
      [] type = "data" -> Line("no_data_loaded_no_analysis")
      [] OTHER         -> Line("no_data_to_visualize")

\* previous_step_output as the event shows it is the output of the event's own
\* stage: the text it returned, or a failure line followed by its error
OwnOutput(ev) ==
    LET result == ev.content.result
        previous_step_output == ev.content.shared_context.previous_step_output
    IN  CASE result.py = "str"  -> previous_step_output = result.str
          [] result.py = "None" -> previous_step_output = SoftFailText(StageTypeOf(ev))
          [] result.py = "dict" ->
                IF Get(result.dict, "success", TRUE)
                THEN IF Has(result.dict, "response")
                        THEN previous_step_output = result.dict.response
                        ELSE previous_step_output \in {result.dict.description,
                                                       result.dict.intermediate_message}
                ELSE /\ previous_step_output # <<>>
                     /\ previous_step_output[1].k = "line"
                     /\ Tail(previous_step_output) = result.dict.error
          [] OTHER -> FALSE

\* C26 (checked under Spec): after every stage, of any kind and successful or
\* not, previous_step_output holds that stage's own output or failure text
C26_EveryStageOverwritesPreviousOutput ==
    \A n \in StageEvents : OwnOutput(out[n])

\* C25 (checked under SpecStages): whatever the plan and the place of the
\* stage in it, the query the
\* Knowledge collaborator is called with is built around the user's original
\* query, also after a data stage that was followed by a visualization stage
C25_KnowledgeQueryEmbedsOriginal ==
    \A n \in CallEntries : trace[n].agent = "knowledge" =>
        /\ trace[n].query.kind = "user"
        /\ trace[n].query.query = chat_message

\* the stage asked nobody or its collaborator reported a failure
Failed(result) ==
    \/ result.py = "None"
    \/ result.py = "dict" /\ ~Get(result.dict, "success", TRUE)

ErrorNote(type) == IF type = "sql" THEN "sql_error" ELSE "data_error"

\* the locals after the stage are those before it, but for the error note in
\* intermediate_results and the failure text in previous_step_output
OnlyNoteAndFailureText(type) ==
    /\ ex'.shared_context =
            [ex.shared_context EXCEPT
                !.previous_step_output = ex'.shared_context.previous_step_output]
    /\ ex'.shared_context.previous_step_output # <<>>
    /\ ex'.current_query = ex.current_query
    /\ DOMAIN ex'.intermediate_results = DOMAIN ex.intermediate_results \cup {ErrorNote(type)}
    /\ \A key \in DOMAIN ex.intermediate_results \ {ErrorNote(type)} :
            ex'.intermediate_results[key] = ex.intermediate_results[key]
    /\ ex'.final_response = ex.final_response
    /\ ex'.visualization = ex.visualization
    /\ ex'.code_output = ex.code_output
    /\ ex'.source_agent = ex.source_agent

\* C27 (checked under SpecStages): a failed sql or data stage leaves
\* sql_results, analysis_findings, knowledge_insights and the working query as
\* they were; it only records its error note and writes its failure text to
\* previous_step_output
C27_FailedStageKeepsContext ==
    [][\A type \in {"sql", "data"} :
            (AtStage(type) /\ Failed(ex'.result)) => OnlyNoteAndFailureText(type)]_vars

\* a data stage has failed after the sql and data stages before it had filled
\* sql_results and analysis_findings
C27_Witness ==
    /\ gpc = "exec" /\ step > 1
    /\ g_expert_sequence[step].type = "data"
    /\ Failed(ex.result)
    /\ Has(ex.intermediate_results, "data_error")
    /\ ex.shared_context.sql_results # <<>>
    /\ ex.shared_context.analysis_findings # <<>>

-----------------------------------------------------------------------------
(* Properties of the final event, checked under Spec *)

\* C28: the final event reports what the intermediate events of the run
\* reported: its stage outputs and error notes are those the streamed stages
\* recorded, and its chart is the chart they produced, whatever a collaborator
\* would answer to a second call
C28_FinalAgreesWithIntermediates ==
    \A n \in Finals :
        /\ out[n].content.intermediate_results = ex.intermediate_results
        /\ out[n].content.visualization = ex.visualization
        /\ out[n].content.source = ex.source_agent

-----------------------------------------------------------------------------
(* Properties of the conversation history *)

\* everything said in the runs so far, in order
Log == [n \in DOMAIN trace |-> trace[n].message]

\* the last run has reached its final event
RunsDone == gpc = "unstarted" /\ trace # <<>>

\* C29 (checked under SpecHistory): after runs of process_query that reached
\* their final event the history has at most HistoryCap entries, they are the
\* last entries of what was said, in order, and the last one is the assistant's
\* response of the last run
C29_HistoryBounded ==
    RunsDone =>
        LET history == session_state.conversation_history IN
        /\ Len(history) <= HistoryCap
        /\ Len(history) <= Len(Log)
        /\ history # <<>>
        /\ \A k \in 0..(Len(history) - 1) :
                history[Len(history) - k] = Log[Len(Log) - k]
        /\ history[Len(history)].role = "assistant"

\* more was said than the history can hold, and the last run is over
C29_Witness ==
    /\ RunsDone
    /\ Len(Log) > HistoryCap
    /\ Len(session_state.conversation_history) = HistoryCap

\* the places of the current user message in a history
CurrentUserMessage(history) ==
    {n \in DOMAIN history : /\ history[n].role = "user"
                            /\ history[n].content = QueryText(chat_message)}

\* an expert collaborator was called in the streamed pass and the run has not
\* yet written its response: the history is the one the call was given
ExpertCalled ==
    /\ \E agent \in ExpertTypes : CallsOf(agent, "stream") # {}
    /\ hpc = "loop" /\ gpc \in {"body", "exec"}

\* C30 (checked under Spec, the first request of a session): the history an
\* expert collaborator is given holds the current user message once and at
\* most MaxMessages messages, and a run that reached its final event has added
\* one user entry and one assistant entry to the history
C30_TurnAppendedOnce ==
    /\ ExpertCalled =>
            /\ Cardinality(CurrentUserMessage(session_state.conversation_history)) = 1
            /\ Len(session_state.conversation_history) <= MaxMessages
    /\ (gpc \in {"final_sent", "returned"}) =>
            /\ Len(session_state.conversation_history) = 2
            /\ session_state.conversation_history[1].role = "user"
            /\ session_state.conversation_history[2].role = "assistant"

=============================================================================
